---- MODULE Spec2Model ----
(***************************************************************************)
(* A model of netauto (src/netauto): the capability registry built when    *)
(* element.py is loaded, Condition construction (condition.py) and the     *)
(* polling searches Element.find_element / Element.find_elements, and the  *)
(* element operations __getattr__, __bool__, supported_properties and      *)
(* wait_unavailable.                                                       *)
(*                                                                         *)
(* Names are sequences of words: the Python name is_read_only is           *)
(* <<"is","read","only">>, the native name IsReadOnly is                   *)
(* <<"Is","Read","Only">>.  A keyword of a call is the sequence of the     *)
(* Python names its "__" separators split it into.                         *)
(***************************************************************************)
EXTENDS Integers, Sequences, FiniteSets, TLC

VARIABLES
    PATTERNS,      \* Element.PATTERNS: ordered dict, pattern name -> pattern
    PROPERTIES,    \* Element.PROPERTIES: ordered dict, group -> (name -> property)
    pc,            \* "idle" | "loop" | "done" | "raised"
    op,            \* the call in progress: "none" | "Condition" | "find_element" | "find_elements"
    call,          \* the arguments the call was made with
    now,           \* dt.datetime.now(), in ticks
    cond,          \* local cond of a find call
    timeout,       \* local timeout of a find call, once converted to a datetime
    min_searches,  \* local min_searches of a find call (counts down)
    elements,      \* local elements of find_elements
    polls,         \* number of FindFirst / FindAll calls the oracle received in this call
    found,         \* what the oracle answered to the latest FindFirst / FindAll
    result,        \* what the call returned or raised
    self,          \* the oracle's side of self.instance: alive, values, what it reports
    requests,      \* the requests the oracle received in this call, in order
    load           \* where the module-level code of element.py stands

vars == <<PATTERNS, PROPERTIES, pc, op, call, now, cond, timeout, min_searches,
          elements, polls, found, result, self, requests, load>>

(***************************************************************************)
(* Bounds of the model.                                                    *)
(***************************************************************************)
MaxInputs == 3      \* positional conditions plus keywords of one Condition(...) call
MaxTime == 3        \* the clock runs from 0 to MaxTime
MaxPolls == 4       \* oracle polls followed within one find call
MaxSearches == 2    \* largest min_searches argument
MaxCount == 2       \* largest min_count argument
MaxTimeout == 2     \* largest relative timeout argument

(***************************************************************************)
(* Python values                                                           *)
(***************************************************************************)
None == [tag |-> "None"]

\* A Python dict keeps its keys in insertion order: a sequence of key/value entries.
EmptyDict == << >>

DictHas(d, k) == \E i \in 1..Len(d) : d[i].key = k

DictGet(d, k) == d[CHOOSE i \in 1..Len(d) : d[i].key = k].val

\* d.get(k, default)
DictGetOr(d, k, default) == IF DictHas(d, k) THEN DictGet(d, k) ELSE default

\* d[k] = v: an existing key keeps its place, a new key goes last.
DictSet(d, k, v) ==
    IF DictHas(d, k)
    THEN [i \in 1..Len(d) |-> IF d[i].key = k THEN [key |-> k, val |-> v] ELSE d[i]]
    ELSE Append(d, [key |-> k, val |-> v])

\* defaultdict(dict): d[k][k1] = v, creating d[k] = {} first when k is missing.
DefaultDictSet(d, k, k1, v) == DictSet(d, k, DictSet(DictGetOr(d, k, EmptyDict), k1, v))

(***************************************************************************)
(* Naming: expanded_clr.utils.python_name_to_csharp_name                   *)
(***************************************************************************)
Capitalize(w) ==
    CASE w = "is" -> "Is"
      [] w = "read" -> "Read"
      [] w = "only" -> "Only"
      [] w = "name" -> "Name"
      [] w = "value" -> "Value"
      [] w = "range" -> "Range"
      [] w = "window" -> "Window"
      [] w = "bogus" -> "Bogus"
      [] w = "automation" -> "Automation"
      [] w = "element" -> "Element"
      [] w = "identifiers" -> "Identifiers"
      [] w = "process" -> "Process"
      [] w = "id" -> "Id"
      [] w = "offscreen" -> "Offscreen"
      [] w = "set" -> "Set"
      [] w = "close" -> "Close"
      [] w = "get" -> "Get"
      [] w = "hash" -> "Hash"
      [] w = "code" -> "Code"
      [] w = "focus" -> "Focus"
      [] OTHER -> w

python_name_to_csharp_name(name) == [i \in 1..Len(name) |-> Capitalize(name[i])]

(***************************************************************************)
(* The oracle's enumeration: what AutomationPattern.LookupById and         *)
(* AutomationProperty.LookupById answer over the two id ranges, in id      *)
(* order.  ProgrammaticName is <<owner, member>> for "owner.member".       *)
(***************************************************************************)
BaseGroup == <<"Automation", "Element", "Identifiers">>

Pattern(id, name, owner) ==
    [id |-> id, name |-> name, ProgrammaticName |-> <<owner, "Pattern">>]

Property(id, name, owner) ==
    [id |-> id, name |-> name, ProgrammaticName |-> <<owner, "Property">>]

ValueIds == <<"Value", "Pattern", "Identifiers">>
RangeValueIds == <<"Range", "Value", "Pattern", "Identifiers">>
WindowIds == <<"Window", "Pattern", "Identifiers">>

ValuePattern == Pattern(10002, <<"Value">>, ValueIds)
RangeValuePattern == Pattern(10003, <<"Range", "Value">>, RangeValueIds)
WindowPattern == Pattern(10009, <<"Window">>, WindowIds)

ProcessIdProperty == Property(30002, <<"Process", "Id">>, BaseGroup)
NameProperty == Property(30005, <<"Name">>, BaseGroup)
IsOffscreenProperty == Property(30022, <<"Is", "Offscreen">>, BaseGroup)
IsWindowPatternAvailableProperty ==
    Property(30044, <<"Is", "Window", "Pattern", "Available">>, BaseGroup)
ValueValueProperty == Property(30045, <<"Value">>, ValueIds)
ValueIsReadOnlyProperty == Property(30046, <<"Is", "Read", "Only">>, ValueIds)
RangeValueIsReadOnlyProperty == Property(30048, <<"Is", "Read", "Only">>, RangeValueIds)
\* the same property of the range-value group under an id below the value group's
RangeValueIsReadOnlyEarly == Property(30040, <<"Is", "Read", "Only">>, RangeValueIds)

\* Two enumerations: the value group's properties first, or the range-value group's.
OracleWorlds ==
    { [patterns |-> <<ValuePattern, RangeValuePattern, WindowPattern>>,
       properties |-> <<ProcessIdProperty, NameProperty, IsOffscreenProperty,
                        IsWindowPatternAvailableProperty,
                        ValueValueProperty, ValueIsReadOnlyProperty,
                        RangeValueIsReadOnlyProperty>>],
      [patterns |-> <<ValuePattern, RangeValuePattern, WindowPattern>>,
       properties |-> <<ProcessIdProperty, NameProperty, IsOffscreenProperty,
                        RangeValueIsReadOnlyEarly,
                        IsWindowPatternAvailableProperty,
                        ValueValueProperty, ValueIsReadOnlyProperty>>] }

(***************************************************************************)
(* Registry construction (element.py, module level)                        *)
(***************************************************************************)
\* for id_ in range(10000, 11000): Element.PATTERNS[PatternName(pat)] = pat
RECURSIVE BuildPatterns(_, _)
BuildPatterns(pats, d) ==
    IF pats = << >> THEN d
    ELSE BuildPatterns(Tail(pats), DictSet(d, Head(pats).name, Head(pats)))

\* TargetGroup without the search and without the raise: the owner is the group.
TargetGroupOwner(patterns, prop) == prop.ProgrammaticName[1]

\* The group one property is filed under: the first pattern whose
\* ProgrammaticName is "<owner>.Pattern", else the owner itself, which must
\* be the base group ("NotImplemented" stands for the raise).
TargetGroup(patterns, prop) ==
    LET target_pattern_name == prop.ProgrammaticName[1]
        programmatic_pattern_name == <<target_pattern_name, "Pattern">>
        hits == {i \in 1..Len(patterns) :
                    patterns[i].val.ProgrammaticName = programmatic_pattern_name}
    IN  IF hits # {}
        THEN patterns[CHOOSE i \in hits : \A j \in hits : i <= j].key
        ELSE IF target_pattern_name # BaseGroup THEN <<"NotImplemented">>
        ELSE target_pattern_name

RECURSIVE BuildProperties(_, _, _)
BuildProperties(patterns, props, d) ==
    IF props = << >> THEN d
    ELSE LET prop == Head(props)
             group == TargetGroup(patterns, prop)
         IN  IF group = <<"NotImplemented">> THEN <<"NotImplemented">>
             ELSE BuildProperties(patterns, Tail(props),
                                  DefaultDictSet(d, group, prop.name, prop))

\* prop_name.endswith('PatternAvailable')
EndsWithPatternAvailable(name) ==
    /\ Len(name) >= 2
    /\ name[Len(name) - 1] = "Pattern"
    /\ name[Len(name)] = "Available"

\* The shortcut pass over list(PROPERTIES.get(base, dict()).items()).
RECURSIVE ShortcutPass(_, _)
ShortcutPass(items, d) ==
    IF items = << >> THEN d
    ELSE LET prop_name == Head(items).key
             prop == Head(items).val
         IN  IF EndsWithPatternAvailable(prop_name)
             THEN ShortcutPass(Tail(items),
                     DefaultDictSet(d, BaseGroup,
                                    SubSeq(prop_name, 1, Len(prop_name) - 2), prop))
             ELSE ShortcutPass(Tail(items), d)

BuildRegistry(world) ==
    LET patterns == BuildPatterns(world.patterns, EmptyDict)
        swept == BuildProperties(patterns, world.properties, EmptyDict)
    IN  [PATTERNS |-> patterns,
         PROPERTIES |-> ShortcutPass(DictGetOr(swept, BaseGroup, EmptyDict), swept)]

(***************************************************************************)
(* Conditions (condition.py).  A condition is True, False, an equality     *)
(* leaf on one property, or an And / Or over a list of conditions.         *)
(***************************************************************************)
NoProperty == Property(0, << >>, << >>)

TrueCondition == [tag |-> "True", prop |-> NoProperty, val |-> 0, terms |-> << >>]
FalseCondition == [tag |-> "False", prop |-> NoProperty, val |-> 0, terms |-> << >>]

PropertyCondition(prop, val) ==
    [tag |-> "Property", prop |-> prop, val |-> val, terms |-> << >>]

AndCondition(terms) == [tag |-> "And", prop |-> NoProperty, val |-> 0, terms |-> terms]
OrCondition(terms) == [tag |-> "Or", prop |-> NoProperty, val |-> 0, terms |-> terms]

Returned(v) == [kind |-> "return", value |-> v, exc |-> "", kw |-> << >>, key |-> << >>]

\* raise ValueError(f'Failed to find property for {prop_name}')
ValueError(kw) ==
    [kind |-> "raise", value |-> None, exc |-> "ValueError", kw |-> kw, key |-> << >>]

\* the KeyError of {...}[csharp_prop_name]
KeyError(key) ==
    [kind |-> "raise", value |-> None, exc |-> "KeyError", kw |-> << >>, key |-> key]

\* raised by the oracle for a node that is gone
ElementNotAvailableException ==
    [kind |-> "raise", value |-> None, exc |-> "ElementNotAvailableException",
     kw |-> << >>, key |-> << >>]

\* one request to the oracle: its method, its argument, and whether it raised
Request(method, arg, raised) == [method |-> method, arg |-> arg, raised |-> raised]

\* LookupInGroup without the group: the name is searched in every group.
LookupInGroupIgnoringGroup(properties, kw) ==
    LET csharp_prop_name == python_name_to_csharp_name(kw[2])
        hits == {i \in 1..Len(properties) : DictHas(properties[i].val, csharp_prop_name)}
    IN  IF hits = {}
        THEN KeyError(csharp_prop_name)
        ELSE Returned(DictGet(properties[CHOOSE i \in hits : \A j \in hits : j <= i].val,
                              csharp_prop_name))

\* The branch of a keyword with a "__": the property of that group only.
LookupInGroup(properties, kw) ==
    LET pattern_name == python_name_to_csharp_name(kw[1])
        csharp_prop_name == python_name_to_csharp_name(kw[2])
        group == DictGetOr(properties, pattern_name, EmptyDict)
    IN  IF DictHas(group, csharp_prop_name)
        THEN Returned(DictGet(group, csharp_prop_name))
        ELSE KeyError(csharp_prop_name)

\* The branch of a plain keyword: the loop over PROPERTIES.values() has no
\* break, so the last group holding the name decides prop.
LookupAnyGroup(properties, kw) ==
    LET csharp_prop_name == python_name_to_csharp_name(kw[1])
        hits == {i \in 1..Len(properties) : DictHas(properties[i].val, csharp_prop_name)}
    IN  IF hits = {}
        THEN ValueError(kw)
        ELSE Returned(DictGet(properties[CHOOSE i \in hits : \A j \in hits : j <= i].val,
                              csharp_prop_name))

\* ResolveKeyword without a failure: a keyword that names nothing resolves
\* to no property.
ResolveKeywordAsNone(properties, kw) ==
    LET found_prop == IF Len(kw) > 1 THEN LookupInGroup(properties, kw)
                      ELSE LookupAnyGroup(properties, kw)
    IN  IF found_prop.kind = "raise" THEN Returned(NoProperty) ELSE found_prop

ResolveKeyword(properties, kw) ==
    IF Len(kw) > 1 THEN LookupInGroup(properties, kw) ELSE LookupAnyGroup(properties, kw)

\* AppendKeywords without the raise: a keyword that names nothing is skipped.
RECURSIVE AppendKeywordsSkipping(_, _, _)
AppendKeywordsSkipping(properties, args, kwargs) ==
    IF kwargs = << >> THEN Returned(args)
    ELSE LET found_prop == ResolveKeyword(properties, Head(kwargs).kw)
         IN  IF found_prop.kind = "raise"
             THEN AppendKeywordsSkipping(properties, args, Tail(kwargs))
             ELSE AppendKeywordsSkipping(properties,
                     Append(args, PropertyCondition(found_prop.value, Head(kwargs).val)),
                     Tail(kwargs))

\* for prop_name, prop_val in kwargs.items(): ... args.append(PropertyCondition(...))
RECURSIVE AppendKeywords(_, _, _)
AppendKeywords(properties, args, kwargs) ==
    IF kwargs = << >> THEN Returned(args)
    ELSE LET found_prop == ResolveKeyword(properties, Head(kwargs).kw)
         IN  IF found_prop.kind = "raise" THEN found_prop
             ELSE AppendKeywords(properties,
                     Append(args, PropertyCondition(found_prop.value, Head(kwargs).val)),
                     Tail(kwargs))

\* FoldAnd with the second pop's value unused: left is ANDed with itself.
RECURSIVE FoldAndLeftTwice(_)
FoldAndLeftTwice(args) ==
    IF Len(args) <= 1 THEN args
    ELSE LET left == args[Len(args)]
         IN  FoldAndLeftTwice(Append(SubSeq(args, 1, Len(args) - 2),
                                     AndCondition(<<left, left>>)))

\* while len(args) > 1: left = args.pop(); right = args.pop(); args.append(And([left, right]))
RECURSIVE FoldAnd(_)
FoldAnd(args) ==
    IF Len(args) <= 1 THEN args
    ELSE LET left == args[Len(args)]
             right == args[Len(args) - 1]
         IN  FoldAnd(Append(SubSeq(args, 1, Len(args) - 2), AndCondition(<<left, right>>)))

\* NewCondition with the other constant for no inputs.
NewConditionEmptyFalse(properties, args, kwargs) ==
    LET all == AppendKeywords(properties, args, kwargs)
    IN  IF all.kind = "raise" THEN all
        ELSE IF Len(all.value) = 0 THEN Returned(FalseCondition)
        ELSE Returned(FoldAnd(all.value)[1])

\* Condition.__new__(cls, args, kwargs)
NewCondition(properties, args, kwargs) ==
    LET all == AppendKeywords(properties, args, kwargs)
    IN  IF all.kind = "raise" THEN all
        ELSE IF Len(all.value) = 0 THEN Returned(TrueCondition)
        ELSE Returned(FoldAnd(all.value)[1])

\* the defaultdict after d[k]: a missing key is created with an empty dict
AfterIndex(d, k) == IF DictHas(d, k) THEN d ELSE Append(d, [key |-> k, val |-> EmptyDict])

\* the defaultdict after d.get(k, default): get does not create the key
AfterGet(d, k) == d

\* The property registry after the lookup of one keyword: the group lookup
\* is PROPERTIES.get(pattern_name, {}), the plain lookup reads .values().
PropertiesAfterKeyword(properties, kw) ==
    IF Len(kw) >= 2
    THEN AfterGet(properties, python_name_to_csharp_name(kw[1]))
    ELSE properties

\* The property registry after the keyword loop of Condition.__new__, which
\* ends at the first keyword that raises.
RECURSIVE PropertiesAfterKeywords(_, _)
PropertiesAfterKeywords(properties, kwargs) ==
    IF kwargs = << >> THEN properties
    ELSE LET after == PropertiesAfterKeyword(properties, Head(kwargs).kw)
         IN  IF ResolveKeyword(properties, Head(kwargs).kw).kind = "raise" THEN after
             ELSE PropertiesAfterKeywords(after, Tail(kwargs))

(***************************************************************************)
(* What the oracle makes of a condition on one node.  A node is the set of *)
(* properties whose current value is 1; every other property is 0.         *)
(***************************************************************************)
PropertyKey(prop) == <<prop.ProgrammaticName[1], prop.name>>

PropertyValue(node, prop) == IF PropertyKey(prop) \in node THEN 1 ELSE 0

RECURSIVE Matches(_, _)
Matches(c, node) ==
    CASE c.tag = "True" -> TRUE
      [] c.tag = "False" -> FALSE
      [] c.tag = "Property" -> PropertyValue(node, c.prop) = c.val
      [] c.tag = "And" -> \A i \in 1..Len(c.terms) : Matches(c.terms[i], node)
      [] c.tag = "Or" -> \E i \in 1..Len(c.terms) : Matches(c.terms[i], node)

(***************************************************************************)
(* Inputs of the calls                                                     *)
(***************************************************************************)
Values == {0, 1}

\* positional conditions a caller passes
PositionalConditions ==
    { PropertyCondition(NameProperty, 0),
      OrCondition(<<PropertyCondition(ValueIsReadOnlyProperty, 1),
                    PropertyCondition(ValueValueProperty, 1)>>),
      AndCondition(<<PropertyCondition(NameProperty, 1),
                     PropertyCondition(ValueValueProperty, 0)>>) }

\* keywords a caller passes: name, is_read_only, is_window, bogus,
\* value__is_read_only, range_value__is_read_only, value__bogus,
\* bogus__name, range_value__value, automation_element_identifiers__name
Keywords ==
    { <<<<"name">>>>, <<<<"is", "read", "only">>>>, <<<<"is", "window">>>>, <<<<"bogus">>>>,
      <<<<"value">>, <<"is", "read", "only">>>>,
      <<<<"range", "value">>, <<"is", "read", "only">>>>,
      <<<<"value">>, <<"bogus">>>>,
      <<<<"bogus">>, <<"name">>>>,
      <<<<"range", "value">>, <<"value">>>>,
      <<<<"automation", "element", "identifiers">>, <<"name">>>> }

RECURSIVE SeqsUpTo(_, _)
SeqsUpTo(S, n) ==
    IF n = 0 THEN {<< >>}
    ELSE LET shorter == SeqsUpTo(S, n - 1)
         IN  shorter \cup {Append(s, x) : s \in shorter, x \in S}

\* kwargs is a dict: no keyword twice.  The first keyword's value is any
\* value, the values of the others are 1.
RECURSIVE KeywordArgs(_)
KeywordArgs(n) ==
    IF n = 0 THEN {<< >>}
    ELSE LET shorter == KeywordArgs(n - 1)
         IN  shorter \cup
             UNION {{Append(k, [kw |-> kw, val |-> val]) :
                        kw \in Keywords \ {k[i].kw : i \in 1..Len(k)},
                        val \in IF k = << >> THEN Values ELSE {1}} :
                    k \in {x \in shorter : Len(x) = n - 1}}

ConditionInputs ==
    UNION {{[args |-> args, kwargs |-> kwargs] :
               kwargs \in KeywordArgs(MaxInputs - Len(args))} :
           args \in SeqsUpTo(PositionalConditions, MaxInputs)}

(***************************************************************************)
(* The oracle's tree under the element searched from: node 0 is the        *)
(* element itself, 1 and 2 are its children, 3 is a child of 1.  Which of  *)
(* the nodes exist changes from one poll to the next.                      *)
(***************************************************************************)
Nodes == 0..3

NodeProperties(n) ==
    CASE n = 0 -> { }
      [] n = 1 -> {PropertyKey(NameProperty)}
      [] n = 2 -> {PropertyKey(NameProperty), PropertyKey(ValueValueProperty)}
      [] n = 3 -> {PropertyKey(ValueIsReadOnlyProperty)}

TreeScopes == {"Element", "Children", "Descendants"}

InScope(scope, n) ==
    CASE scope = "Element" -> n = 0
      [] scope = "Children" -> n \in {1, 2}
      [] scope = "Descendants" -> n \in {1, 2, 3}

AutomationElement(n) == [tag |-> "AutomationElement", node |-> n]

\* AutomationElement.FindAll(scope, condition) on the tree holding the nodes `present`
FindAll(present, scope, c) ==
    {AutomationElement(n) : n \in {m \in present : InScope(scope, m) /\ Matches(c, NodeProperties(m))}}

\* AutomationElement.FindFirst(scope, condition): the first match in tree order, or null
FindFirst(present, scope, c) ==
    LET all == FindAll(present, scope, c)
    IN  IF all = {} THEN None
        ELSE CHOOSE e \in all : \A f \in all : e.node <= f.node

\* Element(instance=element)
Element(instance) == [tag |-> "Element", instance |-> instance]

\* ValueConverter.to_python on a collection of elements: each one wrapped
ToPython(collection) == {Element(e) : e \in collection}

(***************************************************************************)
(* Element.find_element / Element.find_elements                            *)
(***************************************************************************)
\* dt.datetime.max: later than every clock value
DatetimeMax == MaxTime + 1

StartTime == 1

\* float('inf'), a number of seconds, a timedelta, a datetime (past or to come)
Timeouts ==
    {[kind |-> "inf", val |-> 0]}
        \cup [kind : {"seconds"}, val : 0..MaxTimeout]
        \cup [kind : {"timedelta"}, val : {1}]
        \cup [kind : {"datetime"}, val : {0, StartTime + 1}]

\* ConvertTimeout with float('inf') taken as a number of seconds that adds nothing.
ConvertTimeoutInfAsNow(t, clock) ==
    CASE t.kind = "timedelta" -> t.val + clock
      [] t.kind = "seconds" -> clock + t.val
      [] t.kind = "inf" -> clock
      [] OTHER -> t.val

\* ConvertTimeout that adds a second to a number of seconds.
ConvertTimeoutSecondMore(t, clock) ==
    CASE t.kind = "inf" -> DatetimeMax
      [] t.kind = "timedelta" -> t.val + clock
      [] t.kind = "seconds" -> clock + t.val + 1
      [] OTHER -> t.val

\* the conversion of the timeout argument to the datetime the loop compares with
ConvertTimeout(t, clock) ==
    CASE t.kind = "inf" -> DatetimeMax
      [] t.kind = "timedelta" -> t.val + clock
      [] t.kind = "seconds" -> clock + t.val
      [] OTHER -> t.val

\* FindElementContinues with >= for >: one search too many.
FindElementContinuesOneMore(clock, deadline, searches) == clock < deadline \/ searches >= 0

\* FindElementContinues with and for or: gives up once min_searches are done.
FindElementContinuesBoth(clock, deadline, searches) == clock < deadline /\ searches > 0

\* while dt.datetime.now() < timeout or min_searches > 0
FindElementContinues(clock, deadline, searches) == clock < deadline \/ searches > 0

\* FindElementsContinues without the count test.
FindElementsContinuesAnyCount(clock, deadline, searches, elems, min_count) ==
    clock < deadline \/ searches > 0

\* while dt.datetime.now() < timeout or min_searches > 0 and len(elements) < min_count
FindElementsContinues(clock, deadline, searches, elems, min_count) ==
    clock < deadline \/ (searches > 0 /\ Cardinality(elems) < min_count)

\* IsMatch on the wrong test: a match is never seen.
IsMatchNever(element) == element = None /\ element # None

\* if element is not None
IsMatch(element) == element # None

\* AssignElements with += for =: the polls' results pile up.
AssignElementsAccumulating(elems, answer) == elems \cup answer

\* elements = self.instance.FindAll(...)
AssignElements(elems, answer) == answer

\* filters a find call is given
FindFilters ==
    { [args |-> << >>, kwargs |-> << >>],
      [args |-> <<PropertyCondition(NameProperty, 1)>>,
       kwargs |-> <<[kw |-> <<<<"value">>, <<"is", "read", "only">>>>, val |-> 0]>>],
      [args |-> << >>, kwargs |-> <<[kw |-> <<<<"bogus">>>>, val |-> 1]>>],
      [args |-> <<PropertyCondition(NameProperty, 1)>>,
       kwargs |-> <<[kw |-> <<<<"value">>, <<"bogus">>>>, val |-> 1]>>] }

\* self.instance as the oracle holds it: whether the node is still there,
\* its process id, whether it is off-screen (1) or not (0), and what
\* GetSupportedProperties() and GetSupportedPatterns() report for it
Instance(alive, pid, offscreen, properties, patterns) ==
    [alive |-> alive, pid |-> pid, offscreen |-> offscreen,
     properties |-> properties, patterns |-> patterns]

LiveInstance == Instance(TRUE, 1, 0, { }, { })

\* the module-level code of element.py has run to its end
Loaded ==
    [phase |-> "loaded", world |-> [patterns |-> << >>, properties |-> << >>],
     patterns |-> << >>, properties |-> << >>, items |-> << >>]

NoCall ==
    [args |-> << >>, kwargs |-> << >>, timeout |-> [kind |-> "inf", val |-> 0],
     min_searches |-> 0, min_count |-> 0, scope |-> "Element", now |-> 0]

Init ==
    /\ \E world \in OracleWorlds :
         /\ PATTERNS = BuildRegistry(world).PATTERNS
         /\ PROPERTIES = BuildRegistry(world).PROPERTIES
    /\ pc = "idle"
    /\ op = "none"
    /\ call = NoCall
    /\ now = StartTime
    /\ cond = TrueCondition
    /\ timeout = 0
    /\ min_searches = 0
    /\ elements = { }
    /\ polls = 0
    /\ found = None
    /\ result = Returned(None)
    /\ self = LiveInstance
    /\ requests = << >>
    /\ load = Loaded

\* The start of a find call: the condition is built, the timeout converted.
FindCall(name, filter, t, searches, count, scope) ==
    /\ pc = "idle"
    /\ op' = name
    /\ call' = [args |-> filter.args, kwargs |-> filter.kwargs, timeout |-> t,
                min_searches |-> searches, min_count |-> count, scope |-> scope,
                now |-> now]
    /\ LET built == NewCondition(PROPERTIES, filter.args, filter.kwargs)
       IN  IF built.kind = "raise"
           THEN /\ pc' = "raised"
                /\ result' = built
                /\ UNCHANGED <<cond, timeout, min_searches>>
           ELSE /\ pc' = "loop"
                /\ cond' = built.value
                /\ timeout' = ConvertTimeout(t, now)
                /\ min_searches' = searches
                /\ UNCHANGED result
    /\ elements' = { }
    /\ polls' = 0
    /\ found' = None
    /\ PROPERTIES' = PropertiesAfterKeywords(PROPERTIES, filter.kwargs)
    /\ UNCHANGED <<self, requests, load, PATTERNS, now>>

FindElementCall ==
    \E filter \in FindFilters, t \in Timeouts, searches \in 0..MaxSearches,
       scope \in TreeScopes :
        FindCall("find_element", filter, t, searches, 1, scope)

FindElementsCall ==
    \E filter \in FindFilters, t \in Timeouts, searches \in 0..MaxSearches,
       count \in 1..MaxCount, scope \in TreeScopes :
        FindCall("find_elements", filter, t, searches, count, scope)

\* element.children: self.find_elements(scope=TreeScope.Children), every
\* other argument at its default
ChildrenCall ==
    /\ pc = "idle"
    /\ op' = "find_elements"
    /\ call' = [args |-> << >>, kwargs |-> << >>, timeout |-> [kind |-> "seconds", val |-> 0],
                min_searches |-> 1, min_count |-> 1, scope |-> "Children", now |-> now,
                property |-> "children"]
    /\ LET built == NewCondition(PROPERTIES, << >>, << >>)
       IN  /\ pc' = "loop"
           /\ cond' = built.value
           /\ timeout' = ConvertTimeout(call'.timeout, now)
           /\ min_searches' = call'.min_searches
    /\ elements' = { }
    /\ polls' = 0
    /\ found' = None
    /\ PROPERTIES' = PropertiesAfterKeywords(PROPERTIES, << >>)
    /\ UNCHANGED <<self, requests, load, PATTERNS, now, result>>

\* find_element(filter) / find_elements(filter), every other argument at
\* its default (timeout 0, min_searches 1, min_count 1, descendants)
FindDefaultsCall ==
    \E name \in {"find_element", "find_elements"}, filter \in FindFilters :
        FindCall(name, filter, [kind |-> "seconds", val |-> 0], 1, 1, "Descendants")

\* One pass of find_element's loop: the clock is read (it has not gone back
\* since the last read), the oracle is asked once, and a match is returned.
FindElementPoll ==
    /\ pc = "loop"
    /\ op = "find_element"
    /\ polls < MaxPolls
    /\ \E clock \in now..MaxTime,
          answer \in {FindFirst(present, call.scope, cond) : present \in SUBSET Nodes} :
         /\ FindElementContinues(clock, timeout, min_searches)
         /\ now' = clock
         /\ found' = answer
    /\ polls' = polls + 1
    /\ IF IsMatch(found')
       THEN /\ result' = Returned(Element(found'))
            /\ pc' = "done"
            /\ UNCHANGED min_searches
       ELSE /\ min_searches' = min_searches - 1
            /\ UNCHANGED <<result, pc>>
    /\ UNCHANGED <<self, requests, load, PATTERNS, PROPERTIES, op, call, cond, timeout, elements>>

\* The loop test of find_element fails: return None.
FindElementGiveUp ==
    /\ pc = "loop"
    /\ op = "find_element"
    /\ \E clock \in now..MaxTime :
         /\ ~FindElementContinues(clock, timeout, min_searches)
         /\ now' = clock
    /\ result' = Returned(None)
    /\ pc' = "done"
    /\ UNCHANGED <<self, requests, load, PATTERNS, PROPERTIES, op, call, cond, timeout, min_searches,
                   elements, polls, found>>

\* FindElementsPoll with the timeout converted again in every pass, from the
\* clock of that pass.
FindElementsPollExtending ==
    /\ pc = "loop"
    /\ op = "find_elements"
    /\ polls < MaxPolls
    /\ \E clock \in now..MaxTime,
          answer \in {FindAll(present, call.scope, cond) : present \in SUBSET Nodes} :
         /\ FindElementsContinues(clock, timeout, min_searches, elements, call.min_count)
         /\ now' = clock
         /\ found' = answer
         /\ timeout' = ConvertTimeout(call.timeout, clock)
    /\ elements' = AssignElements(elements, found')
    /\ min_searches' = min_searches - 1
    /\ polls' = polls + 1
    /\ UNCHANGED <<self, requests, load, PATTERNS, PROPERTIES, pc, op, call, cond, result>>

\* One pass of find_elements' loop.
FindElementsPoll ==
    /\ pc = "loop"
    /\ op = "find_elements"
    /\ polls < MaxPolls
    /\ \E clock \in now..MaxTime,
          answer \in {FindAll(present, call.scope, cond) : present \in SUBSET Nodes} :
         /\ FindElementsContinues(clock, timeout, min_searches, elements, call.min_count)
         /\ now' = clock
         /\ found' = answer
    /\ elements' = AssignElements(elements, found')
    /\ min_searches' = min_searches - 1
    /\ polls' = polls + 1
    /\ UNCHANGED <<self, requests, load, PATTERNS, PROPERTIES, pc, op, call, cond, timeout, result>>

\* The loop test of find_elements fails: return ValueConverter.to_python(elements).
FindElementsReturn ==
    /\ pc = "loop"
    /\ op = "find_elements"
    /\ \E clock \in now..MaxTime :
         /\ ~FindElementsContinues(clock, timeout, min_searches, elements, call.min_count)
         /\ now' = clock
    /\ result' = Returned(ToPython(elements))
    /\ pc' = "done"
    /\ UNCHANGED <<self, requests, load, PATTERNS, PROPERTIES, op, call, cond, timeout, min_searches,
                   elements, polls, found>>

\* Uncaught with an except clause that turns the exception into absence.
CaughtAsAbsence(outcome) == Returned(None)

\* The loops of the searches stand in no try statement: what the oracle
\* raises in a poll is what the call raises.
Uncaught(outcome) == outcome

\* One pass of either loop in which the oracle finds the element searched
\* from gone: FindFirst / FindAll raises.
FindPollRaises ==
    /\ pc = "loop"
    /\ polls < MaxPolls
    /\ \E clock \in now..MaxTime :
         /\ IF op = "find_element"
            THEN FindElementContinues(clock, timeout, min_searches)
            ELSE FindElementsContinues(clock, timeout, min_searches, elements, call.min_count)
         /\ now' = clock
    /\ polls' = polls + 1
    /\ requests' = Append(requests,
                          Request(IF op = "find_element" THEN "FindFirst" ELSE "FindAll",
                                  NoProperty, TRUE))
    /\ result' = Uncaught(ElementNotAvailableException)
    /\ pc' = IF result'.kind = "raise" THEN "raised" ELSE "done"
    /\ UNCHANGED <<self, load, PATTERNS, PROPERTIES, op, call, cond, timeout, min_searches,
                   elements, found>>

Next ==
    \/ FindElementCall
    \/ FindElementPoll
    \/ FindElementGiveUp
    \/ FindElementsCall
    \/ ChildrenCall
    \/ FindElementsPoll
    \/ FindElementsReturn
    \/ FindPollRaises

Spec == Init /\ [][Next]_vars

\* A call Condition(args, kwargs).
ConditionCall ==
    /\ pc = "idle"
    /\ \E in \in ConditionInputs :
         /\ call' = [NoCall EXCEPT !.args = in.args, !.kwargs = in.kwargs, !.now = now]
         /\ result' = NewCondition(PROPERTIES, in.args, in.kwargs)
    /\ op' = "Condition"
    /\ pc' = IF result'.kind = "raise" THEN "raised" ELSE "done"
    /\ PROPERTIES' = PropertiesAfterKeywords(PROPERTIES, call'.kwargs)
    /\ UNCHANGED <<self, requests, load, PATTERNS, now, cond, timeout, min_searches, elements,
                   polls, found>>

\* CondAnd on the left operand twice.
CondAndSelfTwice(this, other) == AndCondition(<<this, this>>)

\* __and__ of the four wrappers: AndCondition([self.instance, other.instance])
CondAnd(this, other) == AndCondition(<<this, other>>)

\* CondOr building a conjunction.
CondOrAsAnd(this, other) == AndCondition(<<this, other>>)

\* __or__ of the four wrappers: OrCondition([self.instance, other.instance])
CondOr(this, other) == OrCondition(<<this, other>>)

\* the expressions a caller writes with the two operators
Expressions == {"a & b", "a | b", "(a & b) & c", "a & (b & c)"}

Evaluate(expr, a, b, c) ==
    CASE expr = "a & b" -> CondAnd(a, b)
      [] expr = "a | b" -> CondOr(a, b)
      [] expr = "(a & b) & c" -> CondAnd(CondAnd(a, b), c)
      [] expr = "a & (b & c)" -> CondAnd(a, CondAnd(b, c))

\* conditions built by Condition(...), and those with the two constants
\* Condition.true and Condition.false, which stand on the right
Operands == PositionalConditions \cup {PropertyCondition(ValueIsReadOnlyProperty, 1)}

RightOperands == Operands \cup {TrueCondition, FalseCondition}

\* One expression is evaluated on the operands a, b (and c).
OperatorCall ==
    /\ pc = "idle"
    /\ \E expr \in Expressions, a \in Operands, b \in RightOperands, c \in RightOperands :
         /\ expr \in {"a & b", "a | b"} => c = TrueCondition
         /\ expr \in {"(a & b) & c", "a & (b & c)"} => b \in Operands
         /\ op' = expr
         /\ call' = [NoCall EXCEPT !.args = <<a, b, c>>, !.now = now]
         /\ result' = Returned(Evaluate(expr, a, b, c))
    /\ pc' = "done"
    /\ UNCHANGED <<self, requests, load, PATTERNS, PROPERTIES, now, cond, timeout,
                   min_searches, elements, polls, found>>

NextCond ==
    \/ ConditionCall
    \/ OperatorCall

SpecCond == Init /\ [][NextCond]_vars

(***************************************************************************)
(* Element.__getattr__, supported_properties, supported_patterns           *)
(***************************************************************************)
\* raised by the base class for a name it does not know
AttributeError(name) ==
    [kind |-> "raise", value |-> None, exc |-> "AttributeError", kw |-> << >>, key |-> name]

\* The request that would be the next of `reqs` raises when it is the dieAt-th
\* of the call: that is where the oracle finds the node gone.
Raises(reqs, dieAt) == Len(reqs) + 1 = dieAt

Ask(reqs, method, arg, dieAt) == Append(reqs, Request(method, arg, Raises(reqs, dieAt)))

\* the members of the pattern object GetCurrentPattern returns
PatternMembers(pattern) ==
    CASE pattern = ValuePattern -> {<<"Set", "Value">>, <<"Current">>}
      [] pattern = RangeValuePattern -> {<<"Set", "Value">>, <<"Current">>}
      [] pattern = WindowPattern -> {<<"Close">>, <<"Current">>}
      [] OTHER -> { }

\* the names the base wrapper class resolves on the instance itself
BaseMembers == {<<"set", "focus">>, <<"get", "hash", "code">>}

\* the value the oracle holds for a property of the instance
CurrentPropertyValue(inst, prop) ==
    CASE prop = ProcessIdProperty -> inst.pid
      [] prop = IsOffscreenProperty -> inst.offscreen
      [] OTHER -> prop.id

\* {k1: v1 for k1, v1 in v.items() if v1 in supported_properties}
RECURSIVE FilterSupported(_, _)
FilterSupported(v, supported) ==
    IF v = << >> THEN << >>
    ELSE IF Head(v).val \in supported
         THEN <<Head(v)>> \o FilterSupported(Tail(v), supported)
         ELSE FilterSupported(Tail(v), supported)

\* FilterGroups that filters the base group like every other group.
FilterGroupsBaseToo(properties, supported) ==
    [i \in 1..Len(properties) |->
        [key |-> properties[i].key, val |-> FilterSupported(properties[i].val, supported)]]

\* ret: every group filtered by what the oracle reports, the base group kept whole
FilterGroups(properties, supported) ==
    [i \in 1..Len(properties) |->
        [key |-> properties[i].key,
         val |-> IF properties[i].key # BaseGroup
                 THEN FilterSupported(properties[i].val, supported)
                 ELSE properties[i].val]]

\* {k: v for k, v in ret.items() if v}
RECURSIVE DropEmpty(_)
DropEmpty(ret) ==
    IF ret = << >> THEN << >>
    ELSE IF Head(ret).val # << >>
         THEN <<Head(ret)>> \o DropEmpty(Tail(ret))
         ELSE DropEmpty(Tail(ret))

\* Element.supported_properties, given what GetSupportedProperties() answered
SupportedProperties(properties, supported) == DropEmpty(FilterGroups(properties, supported))

\* Element.supported_patterns, given what GetSupportedPatterns() answered
SupportedPatterns(patterns, supported) == FilterSupported(patterns, supported)

\* what one stage of __getattr__ leaves: whether the call ended there
\* (a return or a raise), its outcome, and the requests made so far
Stage(ended, outcome, reqs) == [ended |-> ended, outcome |-> outcome, requests |-> reqs]

\* a member of a pattern object, or of the instance itself (NoProperty)
Member(owner, csharp_name) == [tag |-> "member", owner |-> owner, name |-> csharp_name]

\* The first loop: the first group of self.supported_properties that has
\* csharp_name gives the property whose current value is fetched.
PropertyStage(properties, inst, csharp_name, reqs, dieAt) ==
    LET asked == Ask(reqs, "GetSupportedProperties", NoProperty, dieAt)
        supported_properties == SupportedProperties(properties, inst.properties)
        hits == {i \in 1..Len(supported_properties) :
                    DictHas(supported_properties[i].val, csharp_name)}
        supported_property ==
            DictGet(supported_properties[CHOOSE i \in hits : \A j \in hits : i <= j].val,
                    csharp_name)
        fetched == Ask(asked, "GetCurrentPropertyValue", supported_property, dieAt)
    IN  IF Raises(reqs, dieAt) THEN Stage(TRUE, ElementNotAvailableException, asked)
        ELSE IF hits = { } THEN Stage(FALSE, Returned(None), asked)
        ELSE IF Raises(asked, dieAt) THEN Stage(TRUE, ElementNotAvailableException, fetched)
        ELSE Stage(TRUE, Returned(CurrentPropertyValue(inst, supported_property)), fetched)

\* for supported_pattern_name, supported_pattern in ...items(), from `rest` on
RECURSIVE PatternLoop(_, _, _, _)
PatternLoop(rest, csharp_name, reqs, dieAt) ==
    IF rest = << >> THEN Stage(FALSE, Returned(None), reqs)
    ELSE IF Head(rest).key = BaseGroup THEN PatternLoop(Tail(rest), csharp_name, reqs, dieAt)
    ELSE LET this_pattern == Head(rest).val
             asked == Ask(reqs, "GetCurrentPattern", this_pattern, dieAt)
         IN  IF Raises(reqs, dieAt) THEN Stage(TRUE, ElementNotAvailableException, asked)
             ELSE IF csharp_name \in PatternMembers(this_pattern)
             THEN Stage(TRUE, Returned(Member(this_pattern, csharp_name)), asked)
             ELSE PatternLoop(Tail(rest), csharp_name, asked, dieAt)

\* The second loop: the first supported pattern whose object has csharp_name.
PatternStage(patterns, inst, csharp_name, reqs, dieAt) ==
    LET asked == Ask(reqs, "GetSupportedPatterns", NoProperty, dieAt)
    IN  IF Raises(reqs, dieAt) THEN Stage(TRUE, ElementNotAvailableException, asked)
        ELSE PatternLoop(SupportedPatterns(patterns, inst.patterns), csharp_name, asked, dieAt)

\* super(Element, self).__getattr__(name)
BaseStage(name, reqs) ==
    IF name \in BaseMembers
    THEN Stage(TRUE, Returned(Member(NoProperty, python_name_to_csharp_name(name))), reqs)
    ELSE Stage(TRUE, AttributeError(name), reqs)

\* GetAttr with the two loops in the other order.
GetAttrPatternsFirst(properties, patterns, inst, name, reqs, dieAt) ==
    LET csharp_name == python_name_to_csharp_name(name)
        pattern == PatternStage(patterns, inst, csharp_name, reqs, dieAt)
        property == PropertyStage(properties, inst, csharp_name, pattern.requests, dieAt)
    IN  IF pattern.ended THEN pattern
        ELSE IF property.ended THEN property
        ELSE BaseStage(name, property.requests)

\* Element.__getattr__(name) on the instance `inst`, the oracle having
\* received `reqs` already in this call
GetAttr(properties, patterns, inst, name, reqs, dieAt) ==
    LET csharp_name == python_name_to_csharp_name(name)
        property == PropertyStage(properties, inst, csharp_name, reqs, dieAt)
        pattern == PatternStage(patterns, inst, csharp_name, property.requests, dieAt)
    IN  IF property.ended THEN property
        ELSE IF pattern.ended THEN pattern
        ELSE BaseStage(name, pattern.requests)

\* bool(value) of a number
Truthy(value) == value # 0

\* Catches that lets every exception through.
CatchesNothing(outcome) == outcome.kind = "raise" /\ outcome.exc = "Nothing"

\* except System.Windows.Automation.ElementNotAvailableException
Catches(outcome) == outcome.kind = "raise" /\ outcome.exc = "ElementNotAvailableException"

\* Element.__bool__
Bool(properties, patterns, inst, dieAt) ==
    LET process_id == GetAttr(properties, patterns, inst, <<"process", "id">>, << >>, dieAt)
    IN  IF Catches(process_id.outcome) THEN Stage(TRUE, Returned(FALSE), process_id.requests)
        ELSE IF process_id.outcome.kind = "raise" THEN process_id
        ELSE Stage(TRUE, Returned(Truthy(process_id.outcome.value)), process_id.requests)

\* One pass of wait_unavailable's loop body: ended with True, ended with an
\* exception, or not ended (the loop test comes next).
WaitBody(properties, patterns, inst, include_offscreen, reqs, dieAt) ==
    LET process_id == GetAttr(properties, patterns, inst, <<"process", "id">>, reqs, dieAt)
        is_offscreen == GetAttr(properties, patterns, inst, <<"is", "offscreen">>,
                                process_id.requests, dieAt)
    IN  IF process_id.outcome.kind = "raise" THEN process_id
        ELSE IF ~include_offscreen THEN Stage(FALSE, Returned(None), process_id.requests)
        ELSE IF is_offscreen.outcome.kind = "raise" THEN is_offscreen
        ELSE IF Truthy(is_offscreen.outcome.value)
        THEN Stage(TRUE, Returned(TRUE), is_offscreen.requests)
        ELSE Stage(FALSE, Returned(None), is_offscreen.requests)

\* while dt.datetime.now() < timeout
WaitContinues(clock, deadline) == clock < deadline

(***************************************************************************)
(* Calls on an element                                                     *)
(***************************************************************************)
MaxRequests == 6

ProcessIds == {0, 7}

\* what GetSupportedProperties() and GetSupportedPatterns() may report
ReportedProperties ==
    SUBSET {ValueValueProperty, ValueIsReadOnlyProperty, RangeValueIsReadOnlyProperty,
            RangeValueIsReadOnlyEarly}

ReportedPatterns == SUBSET {ValuePattern, RangeValuePattern, WindowPattern}

\* the instances a wait is started on: the reported sets play no part in
\* the two base-group names it reads
WaitInstances ==
    {Instance(alive, pid, offscreen, { }, { }) :
        alive \in BOOLEAN, pid \in ProcessIds, offscreen \in {0, 1}}

\* the instances of the other calls: the reports vary as well
Instances ==
    WaitInstances \cup
    {Instance(alive, 7, 0, properties, patterns) :
        alive \in BOOLEAN, properties \in ReportedProperties, patterns \in ReportedPatterns}

\* The request at which the oracle finds the node gone (0: at none): the
\* next one when the node is gone already.
DieAts(inst, reqs) ==
    IF inst.alive THEN {0} \cup ((Len(reqs) + 1)..(Len(reqs) + MaxRequests))
    ELSE {Len(reqs) + 1}

\* the attribute names a caller asks for
AttributeNames ==
    { <<"process", "id">>, <<"is", "offscreen">>, <<"name">>, <<"is", "window">>,
      <<"is", "read", "only">>, <<"value">>, <<"set", "value">>, <<"close">>,
      <<"set", "focus">>, <<"bogus">> }

ElementCall(name, args, inst, ended) ==
    /\ pc = "idle"
    /\ op' = name
    /\ call' = [NoCall EXCEPT !.args = args, !.now = now]
    /\ self' = inst
    /\ requests' = ended.requests
    /\ result' = ended.outcome
    /\ pc' = IF result'.kind = "raise" THEN "raised" ELSE "done"
    /\ UNCHANGED <<PATTERNS, PROPERTIES, load, now, cond, timeout, min_searches,
                   elements, polls, found>>

\* bool(element)
BoolCall ==
    /\ pc = "idle"
    /\ \E inst \in Instances : \E dieAt \in DieAts(inst, << >>) :
        ElementCall("bool", << >>, inst, Bool(PROPERTIES, PATTERNS, inst, dieAt))

\* element.<name>
GetattrCall ==
    /\ pc = "idle"
    /\ \E inst \in Instances, name \in AttributeNames : \E dieAt \in DieAts(inst, << >>) :
        ElementCall("getattr", <<name>>, inst,
                    GetAttr(PROPERTIES, PATTERNS, inst, name, << >>, dieAt))

\* element.supported_properties
SupportedPropertiesCall ==
    /\ pc = "idle"
    /\ \E inst \in Instances : \E dieAt \in DieAts(inst, << >>) :
        ElementCall("supported_properties", << >>, inst,
            LET asked == Ask(<< >>, "GetSupportedProperties", NoProperty, dieAt)
            IN  IF Raises(<< >>, dieAt) THEN Stage(TRUE, ElementNotAvailableException, asked)
                ELSE Stage(TRUE, Returned(SupportedProperties(PROPERTIES, inst.properties)),
                           asked))

\* element.supported_patterns
SupportedPatternsCall ==
    /\ pc = "idle"
    /\ \E inst \in Instances : \E dieAt \in DieAts(inst, << >>) :
        ElementCall("supported_patterns", << >>, inst,
            LET asked == Ask(<< >>, "GetSupportedPatterns", NoProperty, dieAt)
            IN  IF Raises(<< >>, dieAt) THEN Stage(TRUE, ElementNotAvailableException, asked)
                ELSE Stage(TRUE, Returned(SupportedPatterns(PATTERNS, inst.patterns)),
                           asked))

\* The start of element.wait_unavailable(timeout=t, include_offscreen=...):
\* the timeout is converted as in the searches.
WaitCall ==
    /\ pc = "idle"
    /\ \E inst \in WaitInstances, t \in Timeouts, include_offscreen \in BOOLEAN :
         /\ self' = inst
         /\ call' = [instance |-> inst, timeout |-> t,
                     include_offscreen |-> include_offscreen, now |-> now]
         /\ timeout' = ConvertTimeout(t, now)
    /\ op' = "wait_unavailable"
    /\ pc' = "wait"
    /\ requests' = << >>
    /\ polls' = 0
    /\ UNCHANGED <<PATTERNS, PROPERTIES, load, now, cond, min_searches, elements, found,
                   result>>

\* ValueError: could not convert string to float
FloatValueError(text) ==
    [kind |-> "raise", value |-> None, exc |-> "ValueError", kw |-> << >>, key |-> <<text>>]

\* float(text): the infinity, a number of seconds, or a ValueError
Float(text) ==
    CASE text \in {"inf", "infinity"} -> Returned([kind |-> "inf", val |-> 0])
      [] text = "0" -> Returned([kind |-> "seconds", val |-> 0])
      [] text = "1" -> Returned([kind |-> "seconds", val |-> 1])
      [] OTHER -> FloatValueError(text)

\* the text the default of the timeout parameter is made from
DefaultTimeoutText == "int"

\* element.wait_unavailable(include_offscreen=...) with no timeout: the
\* default is float("int"), evaluated when the def statement is executed.
WaitDefaultCall ==
    /\ pc = "idle"
    /\ \E inst \in WaitInstances, include_offscreen \in BOOLEAN :
         /\ self' = inst
         /\ call' = [instance |-> inst, timeout |-> [kind |-> "default", val |-> 0],
                     include_offscreen |-> include_offscreen, now |-> now]
    /\ LET default == Float(DefaultTimeoutText)
       IN  IF default.kind = "raise"
           THEN /\ result' = default
                /\ pc' = "raised"
                /\ UNCHANGED timeout
           ELSE /\ timeout' = ConvertTimeout(default.value, now)
                /\ pc' = "wait"
                /\ UNCHANGED result
    /\ op' = "wait_unavailable"
    /\ requests' = << >>
    /\ polls' = 0
    /\ UNCHANGED <<PATTERNS, PROPERTIES, load, now, cond, min_searches, elements, found>>

\* One pass of the loop: the clock is read, the loop test holds, the body
\* asks the oracle, which answers for the node as it is by then.
WaitPoll ==
    /\ pc = "wait"
    /\ polls < MaxPolls
    /\ \E clock \in now..MaxTime, offscreen \in {0, 1} : \E dieAt \in DieAts(self, requests) :
         LET inst == [self EXCEPT !.offscreen = offscreen]
             body == WaitBody(PROPERTIES, PATTERNS, inst, call.include_offscreen,
                              requests, dieAt)
         IN  /\ WaitContinues(clock, timeout)
             /\ now' = clock
             /\ self' = [inst EXCEPT !.alive = (dieAt = 0)]
             /\ requests' = body.requests
             /\ IF ~body.ended THEN UNCHANGED <<pc, result>>
                ELSE IF Catches(body.outcome)
                THEN result' = Returned(TRUE) /\ pc' = "done"
                ELSE /\ result' = body.outcome
                     /\ pc' = IF body.outcome.kind = "raise" THEN "raised" ELSE "done"
    /\ polls' = polls + 1
    /\ UNCHANGED <<PATTERNS, PROPERTIES, load, op, call, cond, timeout, min_searches,
                   elements, found>>

\* The loop test fails: return False.
WaitTimeout ==
    /\ pc = "wait"
    /\ \E clock \in now..MaxTime :
         /\ ~WaitContinues(clock, timeout)
         /\ now' = clock
    /\ result' = Returned(FALSE)
    /\ pc' = "done"
    /\ UNCHANGED <<PATTERNS, PROPERTIES, load, self, requests, op, call, cond, timeout,
                   min_searches, elements, polls, found>>

NextElement ==
    \/ BoolCall
    \/ GetattrCall
    \/ SupportedPropertiesCall
    \/ SupportedPatternsCall
    \/ WaitCall
    \/ WaitDefaultCall
    \/ WaitPoll
    \/ WaitTimeout

SpecElement == Init /\ [][NextElement]_vars

(***************************************************************************)
(* Calls one after the other on the loaded module                          *)
(***************************************************************************)
\* A call has returned or raised: the caller goes on to its next call.  The
\* registries and the clock are what one call leaves to the next.
Return ==
    /\ pc \in {"done", "raised"}
    /\ pc' = "idle"
    /\ op' = "none"
    /\ call' = NoCall
    /\ cond' = TrueCondition
    /\ timeout' = 0
    /\ min_searches' = 0
    /\ elements' = { }
    /\ polls' = 0
    /\ found' = None
    /\ result' = Returned(None)
    /\ self' = LiveInstance
    /\ requests' = << >>
    /\ UNCHANGED <<PATTERNS, PROPERTIES, load, now>>

NextCalls ==
    \/ FindDefaultsCall
    \/ ChildrenCall
    \/ FindElementPoll
    \/ FindElementGiveUp
    \/ FindElementsPoll
    \/ FindElementsReturn
    \/ FindPollRaises
    \/ NextCond
    \/ NextElement
    \/ Return

SpecCalls == Init /\ [][NextCalls]_vars

(***************************************************************************)
(* The module-level code of element.py, one enumerated id at a time        *)
(***************************************************************************)
IsValuePatternAvailableProperty ==
    Property(30043, <<"Is", "Value", "Pattern", "Available">>, BaseGroup)

\* a base property whose name is what is left of IsWindowPatternAvailable
\* without its last 16 characters
IsWindowProperty == Property(30021, <<"Is", "Window">>, BaseGroup)

\* a property whose owner is neither a pattern's nor the base group
StrayProperty == Property(30099, <<"Stray">>, <<"Stray", "Pattern", "Identifiers">>)

\* what the two LookupById sweeps may find, in id order
PatternPool == <<ValuePattern, RangeValuePattern, WindowPattern>>

PropertyPool ==
    <<NameProperty, IsWindowProperty, IsValuePatternAvailableProperty,
      IsWindowPatternAvailableProperty,
      ValueValueProperty, ValueIsReadOnlyProperty, RangeValueIsReadOnlyProperty,
      StrayProperty>>

\* the subsequences of a sequence, the order kept
RECURSIVE SubSeqs(_)
SubSeqs(seq) ==
    IF seq = << >> THEN {<< >>}
    ELSE LET rest == SubSeqs(Tail(seq))
         IN  rest \cup {<<Head(seq)>> \o r : r \in rest}

\* where the module-level code stands: the ids still to come in the two
\* sweeps, and the items still to come in the shortcut loop
Loading(phase, world, patterns, properties, items) ==
    [phase |-> phase, world |-> world, patterns |-> patterns, properties |-> properties,
     items |-> items]

\* raise NotImplementedError(programmatic_pattern_name)
NotImplementedError(programmatic_pattern_name) ==
    [kind |-> "raise", value |-> None, exc |-> "NotImplementedError", kw |-> << >>,
     key |-> programmatic_pattern_name]

\* ShortcutName that cuts one word only.
ShortcutNameShort(prop_name) == SubSeq(prop_name, 1, Len(prop_name) - 1)

\* prop_name[:-16]
ShortcutName(prop_name) == SubSeq(prop_name, 1, Len(prop_name) - 2)

\* the class body has run: both registries are empty, the sweeps are to come
InitLoad ==
    /\ PATTERNS = EmptyDict
    /\ PROPERTIES = EmptyDict
    /\ \E patterns \in SubSeqs(PatternPool), properties \in SubSeqs(PropertyPool) :
         load = Loading("sweeps", [patterns |-> patterns, properties |-> properties],
                        patterns, properties, << >>)
    /\ pc = "idle"
    /\ op = "none"
    /\ call = NoCall
    /\ now = StartTime
    /\ cond = TrueCondition
    /\ timeout = 0
    /\ min_searches = 0
    /\ elements = { }
    /\ polls = 0
    /\ found = None
    /\ result = Returned(None)
    /\ self = LiveInstance
    /\ requests = << >>

\* Element.PATTERNS[PatternName(pat)] = pat, for the next pattern id
PatternStep ==
    /\ load.phase = "sweeps"
    /\ load.patterns # << >>
    /\ PATTERNS' = DictSet(PATTERNS, Head(load.patterns).name, Head(load.patterns))
    /\ load' = [load EXCEPT !.patterns = Tail(load.patterns)]
    /\ UNCHANGED <<PROPERTIES, pc, op, call, now, cond, timeout, min_searches, elements,
                   polls, found, result, self, requests>>

\* The next property id: the property is filed, or the module fails to load.
PropertyStep ==
    /\ load.phase = "sweeps"
    /\ load.patterns = << >>
    /\ load.properties # << >>
    /\ LET prop == Head(load.properties)
           group == TargetGroup(PATTERNS, prop)
       IN  IF group = <<"NotImplemented">>
           THEN /\ load' = [load EXCEPT !.phase = "failed"]
                /\ result' = NotImplementedError(<<prop.ProgrammaticName[1], "Pattern">>)
                /\ pc' = "raised"
                /\ UNCHANGED PROPERTIES
           ELSE /\ PROPERTIES' = DefaultDictSet(PROPERTIES, group, prop.name, prop)
                /\ load' = [load EXCEPT !.properties = Tail(load.properties)]
                /\ UNCHANGED <<pc, result>>
    /\ UNCHANGED <<PATTERNS, op, call, now, cond, timeout, min_searches, elements,
                   polls, found, self, requests>>

\* list(Element.PROPERTIES.get('AutomationElementIdentifiers', dict()).items())
ShortcutsStart ==
    /\ load.phase = "sweeps"
    /\ load.patterns = << >>
    /\ load.properties = << >>
    /\ load' = [load EXCEPT !.phase = "shortcuts",
                            !.items = DictGetOr(PROPERTIES, BaseGroup, EmptyDict)]
    /\ UNCHANGED <<PATTERNS, PROPERTIES, pc, op, call, now, cond, timeout, min_searches,
                   elements, polls, found, result, self, requests>>

\* One item of the shortcut loop.
ShortcutStep ==
    /\ load.phase = "shortcuts"
    /\ load.items # << >>
    /\ LET prop_name == Head(load.items).key
           prop == Head(load.items).val
       IN  IF EndsWithPatternAvailable(prop_name)
           THEN PROPERTIES' =
                   DefaultDictSet(PROPERTIES, BaseGroup, ShortcutName(prop_name), prop)
           ELSE UNCHANGED PROPERTIES
    /\ load' = [load EXCEPT !.items = Tail(load.items)]
    /\ UNCHANGED <<PATTERNS, pc, op, call, now, cond, timeout, min_searches, elements,
                   polls, found, result, self, requests>>

\* The shortcut loop is over: the module is loaded.
LoadDone ==
    /\ load.phase = "shortcuts"
    /\ load.items = << >>
    /\ load' = [load EXCEPT !.phase = "loaded"]
    /\ UNCHANGED <<PATTERNS, PROPERTIES, pc, op, call, now, cond, timeout, min_searches,
                   elements, polls, found, result, self, requests>>

NextLoad ==
    \/ PatternStep
    \/ PropertyStep
    \/ ShortcutsStart
    \/ ShortcutStep
    \/ LoadDone

SpecLoad == InitLoad /\ [][NextLoad]_vars

(***************************************************************************)
(* Vocabulary of the properties below                                      *)
(***************************************************************************)
\* every (group, name, property) entry of the property registry
Registered ==
    UNION {{[group |-> PROPERTIES[i].key, name |-> PROPERTIES[i].val[j].key,
             prop |-> PROPERTIES[i].val[j].val] : j \in 1..Len(PROPERTIES[i].val)} :
           i \in 1..Len(PROPERTIES)}

\* the registry entries a keyword names
NamedBy(kw) ==
    IF Len(kw) = 1
    THEN {t \in Registered : t.name = python_name_to_csharp_name(kw[1])}
    ELSE {t \in Registered : /\ t.group = python_name_to_csharp_name(kw[1])
                             /\ t.name = python_name_to_csharp_name(kw[2])}

\* the native owner a group's properties carry in their ProgrammaticName
OwnerOfGroup(group) ==
    IF DictHas(PATTERNS, group) THEN DictGet(PATTERNS, group).ProgrammaticName[1] ELSE group

\* the terms of a condition, the And nodes opened up
RECURSIVE FlatTerms(_)
FlatTerms(c) ==
    IF c.tag # "And" THEN <<c>>
    ELSE IF Len(c.terms) = 2 THEN FlatTerms(c.terms[1]) \o FlatTerms(c.terms[2])
    ELSE <<c>>

RECURSIVE FlatTermsOfAll(_)
FlatTermsOfAll(cs) ==
    IF cs = << >> THEN << >> ELSE FlatTerms(Head(cs)) \o FlatTermsOfAll(Tail(cs))

Count(x, seq) == Cardinality({i \in 1..Len(seq) : seq[i] = x})

SameMultiset(s, t) ==
    /\ Len(s) = Len(t)
    /\ \A i \in 1..Len(s) : Count(s[i], s) = Count(s[i], t)

\* every node the oracle could hold, as the set of its properties that are 1
AllNodes ==
    SUBSET {PropertyKey(p) : p \in {NameProperty, IsWindowPatternAvailableProperty,
                                     ValueValueProperty, ValueIsReadOnlyProperty,
                                     RangeValueIsReadOnlyProperty}}

IsConditionCall == op = "Condition"

\* the equality leaves the keywords of the call stand for, in keyword order
KeywordLeaves ==
    [i \in 1..Len(call.kwargs) |->
        PropertyCondition(ResolveKeyword(PROPERTIES, call.kwargs[i].kw).value,
                          call.kwargs[i].val)]

(***************************************************************************)
(* C7. Condition(name=v) with a plain keyword whose native name is         *)
(* registered in several groups builds its equality leaf on the property   *)
(* of the first group, in registry iteration order, that holds the name,   *)
(* and does not raise.                                                     *)
(***************************************************************************)
FirstGroupProperty(name) ==
    LET hits == {i \in 1..Len(PROPERTIES) : DictHas(PROPERTIES[i].val, name)}
    IN  DictGet(PROPERTIES[CHOOSE i \in hits : \A j \in hits : i <= j].val, name)

C7_FirstGroupWins ==
    (/\ IsConditionCall
     /\ call.args = << >>
     /\ Len(call.kwargs) = 1
     /\ Len(call.kwargs[1].kw) = 1
     /\ Cardinality(NamedBy(call.kwargs[1].kw)) > 1)
        => /\ pc = "done"
           /\ result = Returned(PropertyCondition(
                          FirstGroupProperty(python_name_to_csharp_name(call.kwargs[1].kw[1])),
                          call.kwargs[1].val))

(***************************************************************************)
(* C8. A keyword group__name resolves to exactly the property registered   *)
(* under that group with that name, whatever other groups hold the name    *)
(* and in whatever order the registry lists the groups; when the group is  *)
(* not registered or the name is not in the group, construction raises.    *)
(***************************************************************************)
C8_GroupKeyword ==
    IsConditionCall =>
        \A i \in 1..Len(call.kwargs) :
            LET kw == call.kwargs[i].kw
                named == NamedBy(kw)
            IN  Len(kw) = 2 =>
                  /\ named = { } => pc = "raised"
                  /\ pc = "done" =>
                       \E t \in named :
                          /\ named = {t}
                          /\ t.prop.ProgrammaticName[1] = OwnerOfGroup(t.group)
                          /\ Count(PropertyCondition(t.prop, call.kwargs[i].val),
                                   FlatTerms(result.value)) >= 1

\* a group keyword resolved although another group, listed before or after
\* the named one according to the registry's order, holds the same name
C8_Witness ==
    /\ IsConditionCall
    /\ pc = "done"
    /\ call.args = << >>
    /\ Len(call.kwargs) = 1
    /\ call.kwargs[1].kw = <<<<"value">>, <<"is", "read", "only">>>>
    /\ result.value.prop = ValueIsReadOnlyProperty
    /\ PROPERTIES[Len(PROPERTIES)].key = <<"Value">>
    /\ \E t \in Registered : t.group = <<"Range", "Value">> /\ t.name = <<"Is", "Read", "Only">>

(***************************************************************************)
(* C9. A keyword, plain or group__property, that names no registered       *)
(* property always ends the construction in an error that carries the      *)
(* offending name (the keyword itself, or the native name of its property  *)
(* part); it is never skipped and no Condition is returned.                *)
(***************************************************************************)
FirstUnresolvable ==
    LET bad == {i \in 1..Len(call.kwargs) : NamedBy(call.kwargs[i].kw) = { }}
    IN  call.kwargs[CHOOSE i \in bad : \A j \in bad : i <= j].kw

C10_AndOfAllInputs ==
    (IsConditionCall /\ pc = "done" /\ Len(call.args) + Len(call.kwargs) >= 1)
        => LET inputs == call.args \o KeywordLeaves
           IN  /\ SameMultiset(FlatTerms(result.value), FlatTermsOfAll(inputs))
               /\ \A node \in AllNodes :
                     Matches(result.value, node)
                        <=> \A i \in 1..Len(inputs) : Matches(inputs[i], node)
               /\ Len(inputs) = 1 => result.value = inputs[1]
               /\ Len(inputs) > 1 => result.value.tag = "And"

C10_Witness ==
    /\ IsConditionCall
    /\ pc = "done"
    /\ Len(call.args) = 1
    /\ Len(call.kwargs) = 2
    /\ Len(FlatTerms(result.value)) >= 3

(***************************************************************************)
(* Properties of the searches                                              *)
(***************************************************************************)
IsFindElement == op = "find_element" /\ pc \in {"loop", "done"}
IsFindElements == op = "find_elements" /\ pc \in {"loop", "done"}

(***************************************************************************)
(* C1. find_elements stops polling as soon as the latest poll's result     *)
(* set has min_count elements, also while the deadline is still to come:   *)
(* no poll follows a poll that returned at least min_count elements.       *)
(***************************************************************************)
C1_StopsAtMinCount ==
    [][(/\ IsFindElements
        /\ polls > 0
        /\ Cardinality(found) >= call.min_count) => polls' = polls]_vars

(***************************************************************************)
(* C2. find_element called with a deadline that is not in the future and   *)
(* min_searches = n >= 0 never polls more than n times, and when no poll   *)
(* matched it returns None after exactly n polls.                          *)
(***************************************************************************)
C2_ExactlyMinSearchesPolls ==
    (IsFindElement /\ timeout <= call.now)
        => /\ polls <= call.min_searches
           /\ (pc = "done" /\ found = None) =>
                 /\ result = Returned(None)
                 /\ polls = call.min_searches

\* timeout=0, min_searches=2, no match: 2 polls, then None
C2_Witness ==
    /\ IsFindElement
    /\ pc = "done"
    /\ call.timeout = [kind |-> "seconds", val |-> 0]
    /\ call.min_searches = 2
    /\ polls = 2
    /\ result = Returned(None)

C4_NoneOnlyWhenExhausted ==
    IsFindElement
        => /\ pc = "loop" => min_searches = call.min_searches - polls
           /\ (pc = "done" /\ result = Returned(None)) =>
                 /\ now >= timeout
                 /\ min_searches <= 0
                 /\ polls >= call.min_searches
                 /\ min_searches = call.min_searches - polls
                 /\ found = None

\* min_searches=0 and a deadline to come: polled until the deadline, then None
C4_Witness ==
    /\ IsFindElement
    /\ pc = "done"
    /\ result = Returned(None)
    /\ call.min_searches = 0
    /\ timeout > call.now
    /\ polls >= 2

(***************************************************************************)
(* C5. find_element returns the element of the first poll that found one,  *)
(* wrapped as an Element, and no poll follows it, whether or not           *)
(* min_searches polls were made or the deadline has passed.                *)
(***************************************************************************)
C5_FirstMatchReturned ==
    /\ [](IsFindElement /\ pc = "done" /\ result # Returned(None)
            => /\ found # None
               /\ result = Returned(Element(found))
               /\ min_searches = call.min_searches - (polls - 1))
    /\ [][(op = "find_element" /\ polls' = polls + 1 /\ found' # None)
            => (pc' = "done" /\ result' = Returned(Element(found')))]_vars
    /\ [][(op = "find_element" /\ pc = "done") => polls' = polls]_vars

\* matched on the second poll, before min_searches polls and before the deadline
C5_Witness ==
    /\ IsFindElement
    /\ pc = "done"
    /\ result = Returned(Element(found))
    /\ found # None
    /\ polls = 2
    /\ polls < call.min_searches + 1
    /\ now < timeout

(***************************************************************************)
(* C6. find_elements returns the result set of its last poll, each         *)
(* element wrapped, and the empty set when it made no poll; the set may    *)
(* hold fewer than min_count elements.                                     *)
(***************************************************************************)
C6_LatestResultSet ==
    (IsFindElements /\ pc = "done")
        => result = Returned({Element(e) : e \in IF polls = 0 THEN { } ELSE found})

\* returned after several polls with less than min_count elements
C6_Witness ==
    /\ IsFindElements
    /\ pc = "done"
    /\ polls >= 2
    /\ result.value # { }
    /\ Cardinality(result.value) < call.min_count

IsWait == op = "wait_unavailable"

\* some request of the call found the node gone
SomeRequestRaised == \E i \in 1..Len(requests) : requests[i].raised

(***************************************************************************)
(* C11. wait_unavailable returns True if the element became unavailable    *)
(* before the deadline and False only if the deadline passed with the      *)
(* element still live; in particular a call on an element the oracle       *)
(* already reports as unavailable returns True.                            *)
(***************************************************************************)
C11_UnavailableAtCallYieldsTrue ==
    (IsWait /\ pc = "done" /\ ~call.instance.alive) => result = Returned(TRUE)

(***************************************************************************)
(* C12. wait_unavailable with include_offscreen set, on a live node the    *)
(* oracle reports as off-screen, returns True; with include_offscreen      *)
(* unset a True is never due to the off-screen status (some request found  *)
(* the node gone).                                                         *)
(***************************************************************************)
C12_OffscreenCountsImmediately ==
    /\ (/\ IsWait /\ pc = "done" /\ call.include_offscreen
        /\ call.instance.alive /\ call.instance.offscreen = 1
        /\ self = call.instance)
          => result = Returned(TRUE)
    /\ (IsWait /\ pc = "done" /\ ~call.include_offscreen /\ result = Returned(TRUE))
          => SomeRequestRaised

(***************************************************************************)
(* C13. bool(element) is False if and only if asking the oracle for the    *)
(* process id raised element-unavailable: whenever the read succeeds the   *)
(* value is True, whatever process id the oracle returned.                 *)
(***************************************************************************)
C13_FalseIffReadRaises ==
    (op = "bool" /\ pc = "done") => (result = Returned(FALSE) <=> SomeRequestRaised)

(***************************************************************************)
(* C14. An element-unavailable failure at any oracle request made by       *)
(* bool(element) or by a poll of wait_unavailable does not reach the       *)
(* caller: bool returns False and wait_unavailable returns True.           *)
(***************************************************************************)
C14_UnavailableNeverPropagates ==
    (op \in {"bool", "wait_unavailable"} /\ SomeRequestRaised)
        => /\ pc = "done"
           /\ result = Returned(op = "wait_unavailable")

\* the node went while the off-screen value was fetched in a second poll
C14_Witness ==
    /\ IsWait
    /\ pc = "done"
    /\ polls = 2
    /\ Len(requests) = 8
    /\ requests[8] = Request("GetCurrentPropertyValue", IsOffscreenProperty, TRUE)
    /\ result = Returned(TRUE)

IsGetattr == op = "getattr" /\ pc \in {"done", "raised"}

\* the native name the call asked for
AskedName == python_name_to_csharp_name(call.args[1])

\* the registry entries under the asked name that the element supports: in
\* the base group, or reported by the oracle for this element
SupportedByName ==
    {t \in Registered : /\ t.name = AskedName
                        /\ (t.group = BaseGroup \/ t.prop \in self.properties)}

\* the registered patterns the oracle reports for the element whose object
\* has the asked name as a member
PatternsWithMember ==
    {pat \in self.patterns : /\ \E i \in 1..Len(PATTERNS) : PATTERNS[i].val = pat
                             /\ AskedName \in PatternMembers(pat)}

LastRequest == requests[Len(requests)]

(***************************************************************************)
(* C15. Attribute resolution consults the supported properties first, then *)
(* the supported pattern objects, then the base class.  When a supported   *)
(* property has the native name, its current value is fetched and          *)
(* returned and no pattern is asked of the oracle; a pattern member is     *)
(* returned only when no supported property matched; AttributeError arises *)
(* only when no supported property, no supported pattern member and no     *)
(* base member matched.                                                    *)
(***************************************************************************)
C15_ResolutionOrder ==
    IsGetattr =>
        /\ requests[1].method = "GetSupportedProperties"
        /\ (SupportedByName # { } /\ ~requests[1].raised)
              => /\ Len(requests) = 2
                 /\ requests[2].method = "GetCurrentPropertyValue"
                 /\ requests[2].arg \in {t.prop : t \in SupportedByName}
                 /\ ~requests[2].raised
                       => result = Returned(CurrentPropertyValue(self, requests[2].arg))
        /\ (\E i \in 1..Len(requests) :
                requests[i].method \in {"GetSupportedPatterns", "GetCurrentPattern"})
              => SupportedByName = { }
        /\ (pc = "done" /\ LastRequest.method = "GetCurrentPattern"
                /\ LastRequest.arg \in PatternsWithMember)
              => result = Returned(Member(LastRequest.arg, AskedName))
        /\ (pc = "done" /\ SupportedByName = { } /\ PatternsWithMember = { })
              => /\ call.args[1] \in BaseMembers
                 /\ result = Returned(Member(NoProperty, AskedName))
        /\ (pc = "raised" /\ result.exc = "AttributeError")
              => /\ SupportedByName = { }
                 /\ PatternsWithMember = { }
                 /\ call.args[1] \notin BaseMembers

\* `value` on an element that reports the Value property and the Value
\* pattern: the property's value came back after two requests
C15_Witness ==
    /\ IsGetattr
    /\ call.args[1] = <<"value">>
    /\ ValueValueProperty \in self.properties
    /\ ValuePattern \in self.patterns
    /\ Len(requests) = 2
    /\ result = Returned(CurrentPropertyValue(self, ValueValueProperty))

\* every (group, name, property) entry of a grouped dictionary
Entries(groups) ==
    UNION {{[group |-> groups[i].key, name |-> groups[i].val[j].key,
             prop |-> groups[i].val[j].val] : j \in 1..Len(groups[i].val)} :
           i \in 1..Len(groups)}

(***************************************************************************)
(* C16. The supported properties of an element hold every registered       *)
(* base-group entry (the shortcut aliases too) whatever the oracle         *)
(* reports, and an entry of another group exactly when the oracle reports  *)
(* its property for the element; so attribute resolution never fetches a   *)
(* property outside the base group that the oracle does not report.        *)
(***************************************************************************)
C16_BaseGroupUnfiltered ==
    /\ (op = "supported_properties" /\ pc = "done")
          => Entries(result.value) =
                {t \in Registered : t.group = BaseGroup \/ t.prop \in self.properties}
    /\ IsGetattr
          => \A i \in 1..Len(requests) :
                requests[i].method = "GetCurrentPropertyValue"
                   => \/ requests[i].arg \in self.properties
                      \/ \E t \in Registered :
                            t.group = BaseGroup /\ t.prop = requests[i].arg

\* the oracle reports one property of the value group and none of the base
\* group: the answer has the whole base group and that one property
C16_Witness ==
    /\ op = "supported_properties"
    /\ pc = "done"
    /\ self.properties = {ValueIsReadOnlyProperty}
    /\ Len(result.value) = 2
    /\ DictHas(result.value[1].val, <<"Is", "Window">>)
    /\ DictHas(result.value[1].val, <<"Process", "Id">>)
    /\ result.value[2].val =
          <<[key |-> <<"Is", "Read", "Only">>, val |-> ValueIsReadOnlyProperty]>>

(***************************************************************************)
(* C17. Original statement: `a & b` is an And over a's and b's terms,      *)
(* flattened one level, so (a & b) & c and a & (b & c) are both a single   *)
(* And over the multiset of terms {a, b, c}.                               *)
(***************************************************************************)
C17_FlattenedAnd ==
    (op \in {"(a & b) & c", "a & (b & c)"} /\ pc = "done")
        => /\ result.value.tag = "And"
           /\ SameMultiset(result.value.terms, call.args)

(***************************************************************************)
(* C17, as the code has it: `a & b` is the two-term And of a and b as they *)
(* are, an And operand staying nested; (a & b) & c and a & (b & c) differ  *)
(* in nesting, but with every nested And opened both have the terms of a,  *)
(* b and c, each as often as given, and both are satisfied by exactly the  *)
(* nodes that satisfy a, b and c.                                          *)
(***************************************************************************)
C17_AndNestsOperands ==
    LET a == call.args[1]
        b == call.args[2]
        c == call.args[3]
    IN  /\ (op = "a & b" /\ pc = "done")
              => /\ result.value.tag = "And"
                 /\ result.value.terms = <<a, b>>
        /\ (op = "(a & b) & c" /\ pc = "done")
              => /\ result.value.terms[1].terms = <<a, b>>
                 /\ result.value.terms[2] = c
        /\ (op = "a & (b & c)" /\ pc = "done")
              => /\ result.value.terms[1] = a
                 /\ result.value.terms[2].terms = <<b, c>>
        /\ (op \in {"(a & b) & c", "a & (b & c)"} /\ pc = "done")
              => /\ Len(result.value.terms) = 2
                 /\ SameMultiset(FlatTerms(result.value), FlatTermsOfAll(call.args))
                 /\ \A n \in AllNodes :
                       Matches(result.value, n)
                          <=> \A i \in 1..3 : Matches(call.args[i], n)

\* three different operands, none an And: the result nests the first two
C17_Witness ==
    /\ op = "(a & b) & c"
    /\ pc = "done"
    /\ \A i \in 1..3 : call.args[i].tag # "And"
    /\ Cardinality({call.args[i] : i \in 1..3}) = 3
    /\ result.value.terms[1].tag = "And"
    /\ Len(FlatTerms(result.value)) = 3

\* the expression is `a & b` or `a | b` with this constant on the right
WithConstant(expr, constant) == op = expr /\ pc = "done" /\ call.args[2] = constant

(***************************************************************************)
(* C18. Original statement: c & True is structurally c, c | False is c,    *)
(* c & False reduces to False and c | True reduces to True.                *)
(***************************************************************************)
C18_IdentitiesReduce ==
    /\ WithConstant("a & b", TrueCondition) => result.value = call.args[1]
    /\ WithConstant("a | b", FalseCondition) => result.value = call.args[1]
    /\ WithConstant("a & b", FalseCondition) => result.value = FalseCondition
    /\ WithConstant("a | b", TrueCondition) => result.value = TrueCondition

(***************************************************************************)
(* C18, as the code has it: the operators do not simplify.  c & True,      *)
(* c & False, c | False and c | True are two-term And / Or conditions      *)
(* holding c and the constant; they are satisfied by the same nodes as,    *)
(* in this order, c, no node, c, every node.                               *)
(***************************************************************************)
C18_IdentitiesUpToMatching ==
    LET c == call.args[1]
    IN  /\ (op \in {"a & b", "a | b"} /\ pc = "done"
                /\ call.args[2] \in {TrueCondition, FalseCondition})
              => /\ result.value.tag = IF op = "a & b" THEN "And" ELSE "Or"
                 /\ result.value.terms = <<c, call.args[2]>>
        /\ WithConstant("a & b", TrueCondition)
              => \A n \in AllNodes : Matches(result.value, n) <=> Matches(c, n)
        /\ WithConstant("a | b", FalseCondition)
              => \A n \in AllNodes : Matches(result.value, n) <=> Matches(c, n)
        /\ WithConstant("a & b", FalseCondition)
              => \A n \in AllNodes : ~Matches(result.value, n)
        /\ WithConstant("a | b", TrueCondition)
              => \A n \in AllNodes : Matches(result.value, n)

\* c | False for a c that some nodes satisfy and some do not
C18_Witness ==
    /\ WithConstant("a | b", FalseCondition)
    /\ result.value.tag = "Or"
    /\ \E n \in AllNodes : Matches(result.value, n)
    /\ \E n \in AllNodes : ~Matches(result.value, n)

(***************************************************************************)
(* Properties of the registry construction                                 *)
(***************************************************************************)
\* the base group of the property registry
BaseProperties == DictGetOr(PROPERTIES, BaseGroup, EmptyDict)

\* the properties the property sweep has been through
Handled ==
    SubSeq(load.world.properties, 1, Len(load.world.properties) - Len(load.properties))

\* the registered patterns whose ProgrammaticName is "<owner of prop>.Pattern"
PatternsOwning(prop) ==
    {i \in 1..Len(PATTERNS) :
        PATTERNS[i].val.ProgrammaticName = <<prop.ProgrammaticName[1], "Pattern">>}

(***************************************************************************)
(* C19. Once the module is loaded, for every enumerated base-group         *)
(* property named XPatternAvailable the base group has the alias X, and    *)
(* the alias is the property XPatternAvailable was enumerated with.        *)
(***************************************************************************)
C19_ShortcutAliases ==
    load.phase = "loaded"
        => \A i \in 1..Len(load.world.properties) :
              LET prop == load.world.properties[i]
                  n == Len(prop.name)
              IN  (/\ prop.ProgrammaticName[1] = BaseGroup
                   /\ n >= 2
                   /\ prop.name[n - 1] = "Pattern"
                   /\ prop.name[n] = "Available")
                     => /\ DictHas(BaseProperties, prop.name)
                        /\ DictGet(BaseProperties, prop.name) = prop
                        /\ DictHas(BaseProperties, SubSeq(prop.name, 1, n - 2))
                        /\ DictGet(BaseProperties, SubSeq(prop.name, 1, n - 2)) = prop

\* both availability properties were enumerated: IsValue and IsWindow are there
C19_Witness ==
    /\ load.phase = "loaded"
    /\ Len(load.world.properties) >= 4
    /\ DictHas(BaseProperties, <<"Is", "Value">>)
    /\ DictGet(BaseProperties, <<"Is", "Value">>) = IsValuePatternAvailableProperty
    /\ DictHas(BaseProperties, <<"Is", "Window">>)
    /\ DictGet(BaseProperties, <<"Is", "Window">>) = IsWindowPatternAvailableProperty

(***************************************************************************)
(* C20. The property sweep files every property it has been through under  *)
(* exactly one group: the pattern whose ProgrammaticName is the property's *)
(* owner followed by ".Pattern", else the base group, which then is the    *)
(* owner.  A property with no such pattern and another owner stops the     *)
(* construction with NotImplementedError, and is filed nowhere.            *)
(***************************************************************************)
C20_FiledUnderOneGroup ==
    /\ load.phase = "sweeps"
          => \A i \in 1..Len(Handled) :
                LET prop == Handled[i]
                    filed == {t \in Registered : t.prop = prop}
                IN  /\ Cardinality(filed) = 1
                    /\ \A t \in filed :
                          /\ t.name = prop.name
                          /\ IF PatternsOwning(prop) # { }
                             THEN \E j \in PatternsOwning(prop) : t.group = PATTERNS[j].key
                             ELSE /\ t.group = BaseGroup
                                  /\ prop.ProgrammaticName[1] = BaseGroup
    /\ load.phase = "failed"
          => LET prop == Head(load.properties)
             IN  /\ PatternsOwning(prop) = { }
                 /\ prop.ProgrammaticName[1] # BaseGroup
                 /\ {t \in Registered : t.prop = prop} = { }
                 /\ pc = "raised"
                 /\ result = NotImplementedError(<<prop.ProgrammaticName[1], "Pattern">>)

\* the sweep stopped at a range-value property, the range-value pattern not
\* having been enumerated, after it had filed properties in two groups
C20_Witness ==
    /\ load.phase = "failed"
    /\ Head(load.properties) = RangeValueIsReadOnlyProperty
    /\ Len(PROPERTIES) = 2
    /\ Len(Handled) >= 3

(***************************************************************************)
(* C21. Once the module is loaded, no call (Condition(...), an operator,   *)
(* attribute resolution, supported_properties, supported_patterns, a find, *)
(* a wait) adds, removes or changes an entry of PATTERNS or PROPERTIES; a  *)
(* lookup of a group that is not registered leaves no empty group behind.  *)
(***************************************************************************)
C21_RegistriesNeverChange ==
    /\ [][PATTERNS' = PATTERNS /\ PROPERTIES' = PROPERTIES]_vars
    /\ [](\A i \in 1..Len(PROPERTIES) :
             PROPERTIES[i].key # <<"Bogus">> /\ PROPERTIES[i].val # EmptyDict)

\* Condition(bogus__name=...) has raised on the group that is not registered
C21_Witness ==
    /\ op = "Condition"
    /\ pc = "raised"
    /\ Len(call.kwargs) >= 1
    /\ call.kwargs[1].kw = <<<<"bogus">>, <<"name">>>>
    /\ result = KeyError(<<"Name">>)
    /\ ~DictHas(PROPERTIES, <<"Bogus">>)

(***************************************************************************)
(* C22. wait_unavailable called without a timeout is accepted and waits    *)
(* with the infinite deadline: it does not raise, never returns False,     *)
(* and a return is True.                                                   *)
(***************************************************************************)
C22_DefaultTimeoutIsInfinite ==
    (IsWait /\ call.timeout.kind = "default")
        => /\ pc # "raised"
           /\ timeout = DatetimeMax
           /\ pc = "done" => result = Returned(TRUE)

\* a call that was given neither positional conditions nor keywords
NoFilterGiven == call.args = << >> /\ call.kwargs = << >>

(***************************************************************************)
(* C23. Condition() with no positional condition and no keyword returns    *)
(* the constant True condition; a find call given no filter searches with  *)
(* it, and so each poll answers with every element in scope.               *)
(***************************************************************************)
C23_NoFilterMatchesAll ==
    /\ (IsConditionCall /\ NoFilterGiven)
          => pc = "done" /\ result = Returned(TrueCondition)
    /\ ((IsFindElement \/ IsFindElements) /\ NoFilterGiven)
          => /\ cond = TrueCondition
             /\ \A n \in AllNodes : Matches(cond, n)
             /\ \A present \in SUBSET Nodes :
                   FindAll(present, call.scope, cond)
                      = {AutomationElement(n) : n \in {m \in present : InScope(call.scope, m)}}

\* find_elements() without a filter answered with all three descendants
C23_Witness ==
    /\ IsFindElements
    /\ NoFilterGiven
    /\ pc = "done"
    /\ polls >= 1
    /\ call.scope = "Descendants"
    /\ found = {AutomationElement(n) : n \in 1..3}
    /\ result = Returned(ToPython(found))

\* a find_elements call whose deadline was not after the clock at the call
DeadlineNotAhead == IsFindElements /\ timeout <= call.now

(***************************************************************************)
(* C24. find_elements with a deadline that is not in the future polls      *)
(* until min_searches polls were made or the latest poll answered with at  *)
(* least min_count elements, whichever is first: never more than           *)
(* min_searches polls, and no return after fewer polls with a latest       *)
(* result below min_count.                                                 *)
(***************************************************************************)
C24_SearchesOrCount ==
    /\ [](DeadlineNotAhead
            => /\ polls <= call.min_searches
               /\ pc = "done"
                     => \/ polls = call.min_searches
                        \/ polls >= 1 /\ Cardinality(found) >= call.min_count)
    /\ [][(DeadlineNotAhead /\ polls' = polls + 1)
             => Cardinality(elements) < call.min_count]_vars

\* two polls were asked for, the first answered with min_count elements
C24_Witness ==
    /\ DeadlineNotAhead
    /\ pc = "done"
    /\ call.min_searches = 2
    /\ polls = 1
    /\ call.min_count = 2
    /\ Cardinality(found) = 2

\* the search was started by element.children
IsChildren == op = "find_elements" /\ "property" \in DOMAIN call

(***************************************************************************)
(* C25. element.children is find_elements over the immediate children with *)
(* the True condition and the default timeout 0, min_searches 1 and        *)
(* min_count 1: it polls the oracle exactly once and returns what that     *)
(* poll answered, the empty answer too.                                    *)
(***************************************************************************)
C25_ChildrenPollsOnce ==
    IsChildren
        => /\ call.scope = "Children"
           /\ cond = TrueCondition
           /\ timeout = call.now
           /\ polls <= 1
           /\ pc = "done" => /\ polls = 1
                             /\ result = Returned(ToPython(found))

\* the one poll found no child: children is empty
C25_Witness ==
    /\ IsChildren
    /\ pc = "done"
    /\ polls = 1
    /\ found = { }
    /\ result = Returned({ })

\* a search in which the oracle raised at a poll
IsFindRaised == op \in {"find_element", "find_elements"} /\ SomeRequestRaised

(***************************************************************************)
(* C26. When the oracle raises ElementNotAvailableException at a poll of   *)
(* find_element or find_elements, the call ends there raising that very    *)
(* exception: no None and no result set is returned in its place, the      *)
(* raising request is the last one, and no poll follows it.                *)
(***************************************************************************)
C26_UnavailablePropagates ==
    /\ [](IsFindRaised
            => /\ pc = "raised"
               /\ result = ElementNotAvailableException
               /\ Len(requests) = 1
               /\ requests[1].method
                    = (IF op = "find_element" THEN "FindFirst" ELSE "FindAll"))
    /\ [][IsFindRaised => polls' = polls /\ requests' = requests]_vars

\* the second poll of a find_elements raised, after a first one that had
\* answered with an element: the answer of the first is not returned
C26_Witness ==
    /\ IsFindRaised
    /\ op = "find_elements"
    /\ pc = "raised"
    /\ polls = 2
    /\ found # { }
    /\ result = ElementNotAvailableException

\* a search whose filter holds a keyword that names no registered property
IsFindUnresolvable ==
    /\ op \in {"find_element", "find_elements"}
    /\ \E i \in 1..Len(call.kwargs) : NamedBy(call.kwargs[i].kw) = { }

(***************************************************************************)
(* C27. find_element and find_elements build the condition before the      *)
(* loop: with a keyword that names no registered property the call ends    *)
(* raising the error of the construction, no poll has been made, no request *)
(* was sent to the oracle, and neither None nor a set is returned.          *)
(***************************************************************************)
C27_UnresolvedFilterFailsFirst ==
    IsFindUnresolvable
        => /\ pc = "raised"
           /\ polls = 0
           /\ requests = << >>
           /\ result.kind = "raise"
           /\ result.exc \in {"ValueError", "KeyError"}
           /\ result.value = None
           /\ found = None
           /\ elements = { }

\* find_element with min_searches 2 and the infinite timeout failed on a
\* group keyword before its first poll
C27_Witness ==
    /\ IsFindUnresolvable
    /\ op = "find_element"
    /\ pc = "raised"
    /\ call.min_searches = 2
    /\ call.timeout.kind = "inf"
    /\ call.kwargs[1].kw = <<<<"value">>, <<"bogus">>>>
    /\ result = KeyError(<<"Bogus">>)
    /\ polls = 0

\* a search past the construction of its condition
IsFindRunning == op \in {"find_element", "find_elements"} /\ pc \in {"loop", "done", "raised"}
                    /\ ~(pc = "raised" /\ polls = 0 /\ requests = << >>)

(***************************************************************************)
(* C28. In one find_element or find_elements call the deadline is the one  *)
(* converted from the timeout argument and the clock of the call, the      *)
(* condition is the one built from the filter, and the scope is the        *)
(* argument: they are the same at every poll and at the return.  A poll    *)
(* changes, of the policy values, min_searches only, lowering it by one    *)
(* (find_element leaves it when it returns a match, and so does a poll in  *)
(* which the oracle raises); the end of the loop changes none.             *)
(***************************************************************************)
C28_PolicyFixedPerCall ==
    /\ [](IsFindRunning
            => /\ timeout = ConvertTimeout(call.timeout, call.now)
               /\ Returned(cond) = NewCondition(PROPERTIES, call.args, call.kwargs)
               /\ min_searches \in {call.min_searches - polls, call.min_searches - polls + 1}
               /\ (op = "find_elements" /\ pc # "raised")
                     => min_searches = call.min_searches - polls)
    /\ [][(IsFindRunning /\ pc = "loop")
            => /\ timeout' = timeout
               /\ cond' = cond
               /\ call' = call
               /\ op' = op
               /\ IF polls' = polls + 1 /\ pc' # "raised"
                  THEN \/ min_searches' = min_searches - 1
                       \/ /\ op = "find_element"
                          /\ pc' = "done"
                          /\ min_searches' = min_searches
                  ELSE min_searches' = min_searches]_vars

\* three polls of one find_elements with a deadline of one second, the clock
\* moving between them
C28_Witness ==
    /\ IsFindRunning
    /\ op = "find_elements"
    /\ call.timeout = [kind |-> "seconds", val |-> 1]
    /\ polls = 3
    /\ now > call.now
    /\ timeout = call.now + 1
    /\ min_searches = call.min_searches - 3

(***************************************************************************)
(* C29. The shortcut pass only adds entries to the base group: every name  *)
(* the base group holds before a step of the pass it holds after it, with  *)
(* the same property, also when the alias of the step is a name the base    *)
(* group already holds.                                                    *)
(***************************************************************************)
C29_ShortcutPassOnlyAdds ==
    [][load.phase = "shortcuts"
         => \A i \in 1..Len(BaseProperties) :
               /\ DictHas(BaseProperties', BaseProperties[i].key)
               /\ DictGet(BaseProperties', BaseProperties[i].key) = BaseProperties[i].val]_vars

====
